---- MODULE Spec2Model ----
(***************************************************************************)
(* matchstick: record linkage between a left and a right table.            *)
(*                                                                         *)
(* A DataFrame is modelled as [cols, rows]: cols is the sequence of column *)
(* names, rows the sequence of records, each a function from the column    *)
(* names to cell values.  Text cells are sequences of one-character        *)
(* strings, keys and match types are integers, a missing value is NaN.     *)
(***************************************************************************)
EXTENDS Integers, Sequences, FiniteSets, TLC

(* ------------------------------ bounds --------------------------------- *)

\* most rows of the right table
MaxRows == 2
\* most criteria in one criteria list
MaxCriteria == 2
\* largest precision of an edit-distance field
MaxPrecision == 2
\* most rows of a match set handed to remove_duplicate_matches directly
MaxData == 3
\* most repetitions of one call of create_matches
MaxRepeats == 2

(* --------------------------- cell values ------------------------------- *)

\* a missing value: None / float nan in a column (type_id=None, outer joins)
NaN == -1

Range(s) == {s[k] : k \in DOMAIN s}

RECURSIVE Flatten(_)
Flatten(ss) == IF ss = <<>> THEN <<>> ELSE Head(ss) \o Flatten(Tail(ss))

Min2(a, b) == IF a <= b THEN a ELSE b

Abs(a) == IF a < 0 THEN 0 - a ELSE a

\* Levenshtein.distance(s, t): insertions, deletions and substitutions
RECURSIVE LevDist(_, _)
LevDist(s, t) ==
    IF s = <<>> THEN Len(t)
    ELSE IF t = <<>> THEN Len(s)
    ELSE IF Head(s) = Head(t) THEN LevDist(Tail(s), Tail(t))
    ELSE 1 + Min2(LevDist(Tail(s), Tail(t)),
                  Min2(LevDist(Tail(s), t), LevDist(s, Tail(t))))

(* --------------------------- DataFrames -------------------------------- *)

Frame(cols, rows) == [cols |-> cols, rows |-> rows]

NRows(df) == Len(df.rows)

HasCol(df, c) == c \in Range(df.cols)

\* df[c] as a sequence of cells
Column(df, c) == [k \in DOMAIN df.rows |-> df.rows[k][c]]

\* df[cs]: the columns cs, in that order
Project(df, cs) ==
    Frame(cs, [k \in DOMAIN df.rows |-> [c \in Range(cs) |-> df.rows[k][c]]])

\* df.drop(c, axis=1)
DropCol(df, c) ==
    Frame(SelectSeq(df.cols, LAMBDA x : x # c),
          [k \in DOMAIN df.rows |->
              [x \in Range(df.cols) \ {c} |-> df.rows[k][x]]])

\* df[c] = vals: an existing column is overwritten in place, a new one is
\* appended
SetCol(df, c, vals) ==
    Frame(IF HasCol(df, c) THEN df.cols ELSE Append(df.cols, c),
          [k \in DOMAIN df.rows |->
              [x \in Range(df.cols) \cup {c} |->
                  IF x = c THEN vals[k] ELSE df.rows[k][x]]])

\* df[c] = v for a scalar v
SetConst(df, c, v) == SetCol(df, c, [k \in DOMAIN df.rows |-> v])

\* df[mask]
FilterRows(df, Keep(_)) == Frame(df.cols, SelectSeq(df.rows, Keep))

(* ------------------------------ pd.merge ------------------------------- *)

\* the name a column gets in a merge: a column of both frames that is not a
\* join key receives the suffix of its side
MergedName(c, other, on, suffix) ==
    IF c \in Range(other.cols) /\ c \notin Range(on) THEN c \o suffix ELSE c

MergedCols(l, r, on, suffixes) ==
    [k \in DOMAIN l.cols |-> MergedName(l.cols[k], r, on, suffixes[1])]
    \o
    LET rest == SelectSeq(r.cols, LAMBDA c : c \notin Range(on))
    IN  [k \in DOMAIN rest |-> MergedName(rest[k], l, on, suffixes[2])]

\* where each column of the merged frame comes from
ColumnSources(l, r, on, suffixes) ==
    [c \in Range(MergedCols(l, r, on, suffixes)) |->
        IF \E lc \in Range(l.cols) : MergedName(lc, r, on, suffixes[1]) = c
        THEN [left |-> TRUE,
              col |-> CHOOSE lc \in Range(l.cols) :
                          MergedName(lc, r, on, suffixes[1]) = c]
        ELSE [left |-> FALSE,
              col |-> CHOOSE rc \in Range(r.cols) \ Range(on) :
                          MergedName(rc, l, on, suffixes[2]) = c]]

MergedRow(lrow, rrow, sources) ==
    [c \in DOMAIN sources |->
        IF sources[c].left THEN lrow[sources[c].col] ELSE rrow[sources[c].col]]

KeysEqual(lrow, rrow, on) == \A c \in Range(on) : lrow[c] = rrow[c]

\* first row of l holding the join key of row a: the label the key gets
\* when the join factorizes the keys in order of appearance
KeyLabel(l, on, a) ==
    CHOOSE k \in 1..a :
        /\ KeysEqual(l.rows[k], l.rows[a], on)
        /\ \A m \in 1..(k - 1) : ~KeysEqual(l.rows[m], l.rows[a], on)

\* The order in which an inner join visits the left rows.  "left": the
\* order of the left frame.  "grouped": equal keys together, the groups in
\* order of first appearance.  Which one the join library produces depends
\* on its version.
LeftVisitOrder(l, on, order) ==
    LET idx == [a \in DOMAIN l.rows |-> a]
    IN  IF order = "left" THEN idx
        ELSE SortSeq(idx, LAMBDA a, b :
                 \/ KeyLabel(l, on, a) < KeyLabel(l, on, b)
                 \/ KeyLabel(l, on, a) = KeyLabel(l, on, b) /\ a < b)

\* pd.merge(l, r, on=on, suffixes=suffixes), how='inner'
MergeInner(l, r, on, suffixes, order) ==
    LET visit == LeftVisitOrder(l, on, order)
        sources == ColumnSources(l, r, on, suffixes)
        matches(a) ==
            LET hit == SelectSeq(r.rows,
                                 LAMBDA rr : KeysEqual(l.rows[a], rr, on))
            IN  [k \in DOMAIN hit |-> MergedRow(l.rows[a], hit[k], sources)]
    IN  Frame(MergedCols(l, r, on, suffixes),
              Flatten([k \in DOMAIN visit |-> matches(visit[k])]))

DefaultSuffixes == <<"_x", "_y">>

(* ------------------------ module-level functions ----------------------- *)

\* crossjoin_dataframes(df1, df2, suffixes=suffixes): both frames are
\* copied, the copies get the helper column __tmp = 1 and are merged on it
crossjoin_dataframes(df1, df2, suffixes, order) ==
    LET tmp1 == SetConst(df1, "__tmp", 1)
        tmp2 == SetConst(df2, "__tmp", 1)
    IN  DropCol(MergeInner(tmp1, tmp2, <<"__tmp">>, suffixes, order), "__tmp")

\* a cross-join that sets the helper column on the caller's frames
CrossjoinInPlace(df1, df2, suffixes, order) ==
    [product |-> crossjoin_dataframes(df1, df2, suffixes, order),
     df1 |-> SetConst(df1, "__tmp", 1),
     df2 |-> SetConst(df2, "__tmp", 1)]

\* a call of crossjoin_dataframes: the product returned and the caller's
\* two frames afterwards.  tmp1 and tmp2 are copies (df.copy()), so the
\* helper column never reaches the frames handed in.
CrossjoinCall(df1, df2, suffixes, order) ==
    [product |-> crossjoin_dataframes(df1, df2, suffixes, order),
     df1 |-> df1,
     df2 |-> df2]

\* a sort that also turns around the rows with a missing match_type
SortedByNullsLoose(data, ties) ==
    LET mt(k) == data.rows[k]["match_type"]
        before(a, b) ==
            \/ mt(a) # NaN /\ mt(b) = NaN
            \/ mt(a) # NaN /\ mt(b) # NaN /\ mt(a) < mt(b)
            \/ mt(a) = mt(b) /\ IF ties = "kept" THEN a < b ELSE b < a
    IN  SortSeq([k \in DOMAIN data.rows |-> k], before)

\* data.sort_values('match_type'): the row positions in sorted order.  Rows
\* with a missing match_type are placed last and keep their input order.
\* The default sort kind is quicksort, which is not stable: rows of equal
\* match_type may come out in any order.  ties says what the sort does to
\* them: "kept" leaves them in input order, "reversed" turns them around.
SortedBy(data, ties) ==
    LET mt(k) == data.rows[k]["match_type"]
        before(a, b) ==
            \/ mt(a) # NaN /\ mt(b) = NaN
            \/ mt(a) # NaN /\ mt(b) # NaN /\ mt(a) < mt(b)
            \/ mt(a) # NaN /\ mt(b) # NaN /\ mt(a) = mt(b)
                 /\ IF ties = "kept" THEN a < b ELSE b < a
            \/ mt(a) = NaN /\ mt(b) = NaN /\ a < b
    IN  SortSeq([k \in DOMAIN data.rows |-> k], before)

SortedOrders(data) == {SortedBy(data, ties) : ties \in {"kept", "reversed"}}

\* keep='last' in place of keep='first'
DropDuplicatesLast(data, order, subset) ==
    LET same(a, b) == \A c \in Range(subset) : data.rows[a][c] = data.rows[b][c]
        last == SelectSeq([k \in DOMAIN order |-> k],
                          LAMBDA k : \A m \in (k + 1)..Len(order) :
                                         ~same(order[m], order[k]))
    IN  [k \in DOMAIN last |-> order[last[k]]]

\* .drop_duplicates(subset=subset, keep='first') of the rows taken in the
\* order given: the positions that are kept
DropDuplicatesFirst(data, order, subset) ==
    LET same(a, b) == \A c \in Range(subset) : data.rows[a][c] = data.rows[b][c]
        first == SelectSeq([k \in DOMAIN order |-> k],
                           LAMBDA k : \A m \in 1..(k - 1) :
                                          ~same(order[m], order[k]))
    IN  [k \in DOMAIN first |-> order[first[k]]]

\* drop_duplicates without the sort before it
RemoveDuplicatesUnsorted(data, id_fields, order) ==
    LET kept == DropDuplicatesFirst(data, [k \in DOMAIN data.rows |-> k], id_fields)
    IN  [index |-> kept,
         df |-> Frame(data.cols, [k \in DOMAIN kept |-> data.rows[kept[k]]])]

\* remove_duplicate_matches(data, id_fields), for one outcome of the sort:
\* index holds the positions (index labels) of the rows kept, df the rows
remove_duplicate_matches(data, id_fields, order) ==
    LET kept == DropDuplicatesFirst(data, order, id_fields)
    IN  [index |-> kept,
         df |-> Frame(data.cols, [k \in DOMAIN kept |-> data.rows[kept[k]]])]

(* ------------------------------ Matcher -------------------------------- *)

\* What a method call leaves behind: err is the exception that left the
\* call ("" when it returned), df the frame returned, self the Matcher
\* afterwards, fields the caller's field dictionaries afterwards.
Outcome(err, df, self, fields) ==
    [err |-> err, df |-> df, self |-> self, fields |-> fields]

NoFrame == Frame(<<>>, <<>>)

\* a join on the first field of the list only
MatchOnFirstField(self, field_list, type_id, order) ==
    LET merged_df == MergeInner(self.left_data, self.right_data,
                                SubSeq(field_list, 1, 1), self.suffixes, order)
    IN  Outcome("",
                SetConst(SetCol(merged_df, "matched_to",
                                Column(merged_df, self.left_id_field)),
                         "match_type", type_id),
                self, <<>>)

\* Matcher.match_on_field(field_list, type_id)
match_on_field(self, field_list, type_id, order) ==
    IF \E f \in Range(field_list) :
           ~HasCol(self.left_data, f) \/ ~HasCol(self.right_data, f)
    THEN Outcome("KeyError", NoFrame, self, <<>>)
    ELSE
    LET merged_df == MergeInner(self.left_data, self.right_data, field_list,
                                self.suffixes, order)
    IN  IF ~HasCol(merged_df, self.left_id_field)
        THEN Outcome("KeyError", NoFrame, self, <<>>)
        ELSE Outcome("",
                     SetConst(SetCol(merged_df, "matched_to",
                                     Column(merged_df, self.left_id_field)),
                              "match_type", type_id),
                     self, <<>>)

\* The callables handed to match_on_function, by what they compute on a row
Take(s, n) == SubSeq(s, 1, Min2(n, Len(s)))

\* func(row) raises
FuncRaises(func, row) ==
    CASE func.body = "initials" ->
             ~({"first", "last"} \subseteq DOMAIN row)
      [] func.body = "second_char" ->
             "first" \notin DOMAIN row \/ Len(row["first"]) < 2
      [] func.body = "left_key" -> "id1" \notin DOMAIN row
      [] func.body = "right_key" -> "id2" \notin DOMAIN row

\* func(row)
FuncValue(func, row) ==
    CASE func.body = "initials" -> Take(row["first"], 1) \o Take(row["last"], 1)
      [] func.body = "second_char" -> <<row["first"][2]>>
      [] func.body = "left_key" -> row["id1"]
      [] func.body = "right_key" -> row["id2"]

\* df.apply(f, axis=1) of a frame without rows returns a copy of the frame,
\* not a column, and assigning a frame of several columns to one column
\* raises ValueError
ApplyGivesFrame(df) == NRows(df) = 0

\* Matcher.match_on_function(func, type_id)
match_on_function(self, func, type_id, order) ==
    LET match_column == IF func.has_name THEN func.name ELSE "MatchColumn"
        left == self.left_data
        right == self.right_data
        self1 == [self EXCEPT !.left_data =
                     SetCol(left, match_column,
                            [k \in DOMAIN left.rows |-> FuncValue(func, left.rows[k])])]
        self2 == [self1 EXCEPT !.right_data =
                     SetCol(right, match_column,
                            [k \in DOMAIN right.rows |-> FuncValue(func, right.rows[k])])]
        result == match_on_field(self2, <<match_column>>, type_id, order)
        self3 == [self2 EXCEPT !.left_data = DropCol(self2.left_data, match_column),
                               !.right_data = DropCol(self2.right_data, match_column)]
    IN  IF ApplyGivesFrame(left)
        THEN Outcome("ValueError", NoFrame, self, <<>>)
        ELSE IF \E k \in DOMAIN left.rows : FuncRaises(func, left.rows[k])
        THEN Outcome("FunctionError", NoFrame, self, <<>>)
        ELSE IF ApplyGivesFrame(right)
        THEN Outcome("ValueError", NoFrame, self1, <<>>)
        ELSE IF \E k \in DOMAIN right.rows : FuncRaises(func, right.rows[k])
        THEN Outcome("FunctionError", NoFrame, self1, <<>>)
        ELSE IF result.err # ""
        THEN Outcome(result.err, NoFrame, self2, <<>>)
        ELSE Outcome("", DropCol(result.df, match_column), self3, <<>>)

\* the bookkeeping keys levenshtein writes into a field dictionary
WithNames(field, suffixes) ==
    [k \in DOMAIN field \cup {"left", "right", "levenshtein"} |->
        CASE k = "left" -> field["field_name"] \o suffixes[1]
          [] k = "right" -> field["field_name"] \o suffixes[2]
          [] k = "levenshtein" -> field["field_name"] \o "_levenshtein_distance"
          [] OTHER -> field[k]]

\* a pruning loop that also drops the rows whose lengths differ by exactly
\* the precision
RECURSIVE PruneBelowPrecision(_, _, _)
PruneBelowPrecision(crossed, fields, k) ==
    IF k > Len(fields) THEN [err |-> "", df |-> crossed]
    ELSE IF ApplyGivesFrame(crossed) THEN [err |-> "ValueError", df |-> NoFrame]
    ELSE
    LET diff(row) == Abs(Len(row[fields[k]["left"]]) - Len(row[fields[k]["right"]]))
        with_diff == SetCol(crossed, "length_diff",
                            [r \in DOMAIN crossed.rows |-> diff(crossed.rows[r])])
    IN  PruneBelowPrecision(
            FilterRows(with_diff,
                       LAMBDA row : row["length_diff"] < fields[k]["precision"].val),
            fields, k + 1)

\* the pruning loop from field k on: rows whose two values differ in length
\* by more than the field's precision are dropped
RECURSIVE PruneByLength(_, _, _)
PruneByLength(crossed, fields, k) ==
    IF k > Len(fields) THEN [err |-> "", df |-> crossed]
    ELSE IF ApplyGivesFrame(crossed) THEN [err |-> "ValueError", df |-> NoFrame]
    ELSE IF ~HasCol(crossed, fields[k]["left"]) \/ ~HasCol(crossed, fields[k]["right"])
    THEN [err |-> "KeyError", df |-> NoFrame]
    ELSE
    LET diff(row) == Abs(Len(row[fields[k]["left"]]) - Len(row[fields[k]["right"]]))
        with_diff == SetCol(crossed, "length_diff",
                            [r \in DOMAIN crossed.rows |-> diff(crossed.rows[r])])
    IN  PruneByLength(
            FilterRows(with_diff,
                       LAMBDA row : row["length_diff"] <= fields[k]["precision"].val),
            fields, k + 1)

\* the distance loop from field k on: one distance column per field
RECURSIVE AddDistances(_, _, _)
AddDistances(crossed, fields, k) ==
    IF k > Len(fields) THEN [err |-> "", df |-> crossed]
    ELSE IF ApplyGivesFrame(crossed) THEN [err |-> "ValueError", df |-> NoFrame]
    ELSE
    LET dist(row) == LevDist(row[fields[k]["left"]], row[fields[k]["right"]])
    IN  AddDistances(SetCol(crossed, fields[k]["levenshtein"],
                            [r \in DOMAIN crossed.rows |-> dist(crossed.rows[r])]),
                     fields, k + 1)

\* reduce(and_, filters) of one row: every field within its precision
ChainedFilters(row, fields) ==
    \A k \in DOMAIN fields :
        row[fields[k]["levenshtein"]] <= fields[k]["precision"].val

\* Matcher.levenshtein(fields, type_id)
levenshtein(self, fields, type_id, order) ==
    LET named == [k \in DOMAIN fields |-> WithNames(fields[k], self.suffixes)]
        crossed == SetConst(crossjoin_dataframes(self.left_data, self.right_data,
                                                 self.suffixes, order),
                            "match_type", type_id)
        pruned == PruneByLength(crossed, named, 1)
        measured == AddDistances(pruned.df, named, 1)
    IN  IF \E k \in DOMAIN fields :
               \/ ~HasCol(self.left_data, fields[k]["field_name"])
               \/ ~HasCol(self.right_data, fields[k]["field_name"])
        THEN Outcome("AssertionError", NoFrame, self, fields)
        ELSE IF pruned.err # "" THEN Outcome(pruned.err, NoFrame, self, named)
        ELSE IF measured.err # "" THEN Outcome(measured.err, NoFrame, self, named)
        ELSE IF Len(fields) = 0 THEN Outcome("TypeError", NoFrame, self, named)
        ELSE IF ~HasCol(measured.df, self.left_id_field)
        THEN Outcome("KeyError", NoFrame, self, named)
        ELSE Outcome("",
                     FilterRows(SetCol(measured.df, "matched_to",
                                       Column(measured.df, self.left_id_field)),
                                LAMBDA row : ChainedFilters(row, named)),
                     self, named)

\* the asserts of validate_match_criteria on one criterion
CriterionPasses(match_type) ==
    /\ "method" \in DOMAIN match_type
    /\ match_type["method"] \in {"exact_match", "function", "levenshtein"}
    /\ match_type["method"] = "exact_match" => "fields" \in DOMAIN match_type
    /\ match_type["method"] = "function" =>
          /\ "function" \in DOMAIN match_type
          /\ match_type["function"].callable
    /\ match_type["method"] = "levenshtein" =>
          /\ "fields" \in DOMAIN match_type
          /\ \A k \in DOMAIN match_type["fields"] :
                LET field == match_type["fields"][k]
                IN  /\ "field_name" \in DOMAIN field
                    /\ "precision" \in DOMAIN field
                    /\ field["precision"].isint

\* a validation that looks at the first criterion only
ValidateFirstOnly(match_criteria) ==
    match_criteria = <<>> \/ CriterionPasses(match_criteria[1])

\* Matcher.validate_match_criteria(match_criteria): TRUE when no assert
\* fails
validate_match_criteria(match_criteria) ==
    \A k \in DOMAIN match_criteria : CriterionPasses(match_criteria[k])

\* match_type.get('type_id')
GetTypeId(match_type) ==
    IF "type_id" \in DOMAIN match_type THEN match_type["type_id"] ELSE NaN

\* one iteration of the loop of create_matches: the criterion is handed to
\* the matcher its method names
DispatchRule(self, match_type, order) ==
    IF "method" \notin DOMAIN match_type
    THEN Outcome("KeyError", NoFrame, self, <<>>)
    ELSE IF match_type["method"] = "exact_match"
    THEN IF "fields" \notin DOMAIN match_type
         THEN Outcome("KeyError", NoFrame, self, <<>>)
         ELSE match_on_field(self, match_type["fields"], GetTypeId(match_type), order)
    ELSE IF match_type["method"] = "function"
    THEN IF "function" \notin DOMAIN match_type
         THEN Outcome("KeyError", NoFrame, self, <<>>)
         ELSE IF ~match_type["function"].callable
         THEN Outcome("TypeError", NoFrame, self, <<>>)
         ELSE match_on_function(self, match_type["function"], GetTypeId(match_type), order)
    ELSE IF match_type["method"] = "levenshtein"
    THEN IF \/ "fields" \notin DOMAIN match_type
            \/ \E k \in DOMAIN match_type["fields"] :
                  \/ ~({"field_name", "precision"} \subseteq DOMAIN match_type["fields"][k])
                  \/ ~match_type["fields"][k]["precision"].isint
         THEN Outcome("KeyError", NoFrame, self, <<>>)
         ELSE levenshtein(self, match_type["fields"], GetTypeId(match_type), order)
    ELSE Outcome("UnboundLocalError", NoFrame, self, <<>>)

\* the criterion after its dispatch: levenshtein has written into the
\* dictionaries of its "fields" list
AfterDispatch(match_type, out) ==
    IF "method" \in DOMAIN match_type /\ match_type["method"] = "levenshtein"
       /\ out.fields # <<>>
    THEN [match_type EXCEPT !["fields"] = out.fields]
    ELSE match_type

\* pd.concat(frames): the rows of the frames one after the other, over the
\* union of their columns, NaN where a frame lacks a column
RECURSIVE ConcatCols(_)
ConcatCols(frames) ==
    IF frames = <<>> THEN <<>>
    ELSE LET rest == ConcatCols(SubSeq(frames, 1, Len(frames) - 1))
             last == frames[Len(frames)]
         IN  rest \o SelectSeq(last.cols, LAMBDA c : c \notin Range(rest))

\* only the last frame of the list
ConcatLastOnly(frames) ==
    IF frames = <<>> THEN NoFrame ELSE frames[Len(frames)]

ConcatFrames(frames) ==
    LET cols == ConcatCols(frames)
        widen(df) == [k \in DOMAIN df.rows |->
                         [c \in Range(cols) |->
                             IF HasCol(df, c) THEN df.rows[k][c] ELSE NaN]]
    IN  Frame(cols, Flatten([k \in DOMAIN frames |-> widen(frames[k])]))

\* the end of create_matches: the results are concatenated, cut down to the
\* key fields and match_type, and merged back onto both tables
CombineResults(self, results, order) ==
    LET combined_results == ConcatFrames(results)
        key_fields == <<self.left_id_field, self.right_id_field, "match_type">>
        match_results == Project(combined_results, key_fields)
        with_left == MergeInner(match_results, self.left_data,
                                <<self.left_id_field>>, DefaultSuffixes, order)
    IN  IF results = <<>> THEN Outcome("ValueError", NoFrame, self, <<>>)
        ELSE IF \E c \in Range(key_fields) : ~HasCol(combined_results, c)
        THEN Outcome("KeyError", NoFrame, self, <<>>)
        ELSE IF ~HasCol(with_left, self.right_id_field)
        THEN Outcome("KeyError", NoFrame, self, <<>>)
        ELSE Outcome("",
                     MergeInner(with_left, self.right_data,
                                <<self.right_id_field>>, DefaultSuffixes, order),
                     self, <<>>)

\* pd.merge(l, r, on=on, how='right', indicator=True): every row of r, once
\* per row of l with its key ("both"), or once with NaN in the columns of l
\* ("right_only")
MergeRightIndicator(l, r, on) ==
    LET sources == ColumnSources(l, r, on, DefaultSuffixes)
        nan_row(rr) == [c \in Range(l.cols) |-> IF c \in Range(on) THEN rr[c] ELSE NaN]
        both(rr) ==
            LET hit == SelectSeq(l.rows, LAMBDA lr : KeysEqual(lr, rr, on))
            IN  [k \in DOMAIN hit |->
                    MergedRow(hit[k], rr, sources) @@ ("_merge" :> "both")]
        right_only(rr) ==
            MergedRow(nan_row(rr), rr, sources) @@ ("_merge" :> "right_only")
        rows(rr) ==
            IF \E k \in DOMAIN l.rows : KeysEqual(l.rows[k], rr, on)
            THEN both(rr) ELSE <<right_only(rr)>>
    IN  Frame(Append(MergedCols(l, r, on, DefaultSuffixes), "_merge"),
              Flatten([k \in DOMAIN r.rows |-> rows(r.rows[k])]))

\* unmatched without the filter on the indicator column
UnmatchedUnfiltered(self, match_results, order) ==
    LET merged == MergeRightIndicator(match_results, self.right_data,
                                      <<self.right_id_field>>)
        common == SelectSeq(self.right_data.cols, LAMBDA c : HasCol(merged, c))
    IN  Outcome("",
                Project(MergeInner(self.right_data, merged, common,
                                   DefaultSuffixes, order),
                        self.right_data.cols),
                self, <<>>)

\* Matcher.unmatched(match_results)
unmatched(self, match_results, order) ==
    IF ~HasCol(match_results, self.right_id_field)
    THEN Outcome("KeyError", NoFrame, self, <<>>)
    ELSE
    LET merged == MergeRightIndicator(match_results, self.right_data,
                                      <<self.right_id_field>>)
        right_only == FilterRows(merged, LAMBDA row : row["_merge"] = "right_only")
        common == SelectSeq(self.right_data.cols, LAMBDA c : HasCol(right_only, c))
    IN  IF common = <<>> THEN Outcome("MergeError", NoFrame, self, <<>>)
        ELSE Outcome("",
                     Project(MergeInner(self.right_data, right_only, common,
                                        DefaultSuffixes, order),
                             self.right_data.cols),
                     self, <<>>)

(* ------------------------------- inputs -------------------------------- *)

\* text values: two first names one edit and one length apart, two last
\* names of equal length two edits apart
Firsts == {<<"a", "b">>, <<"b">>}
Lasts == {<<"x", "y">>, <<"y", "x">>}

LeftCols == <<"id1", "first", "last">>
RightCols == <<"id2", "first", "last">>

LeftRow(id, first, last) == [id1 |-> id, first |-> first, last |-> last]
RightRow(id, first, last) == [id2 |-> id, first |-> first, last |-> last]

\* the population tables: keys are unique, values repeat
Population ==
    Frame(LeftCols, << LeftRow(1, <<"a", "b">>, <<"x", "y">>),
                       LeftRow(2, <<"b">>, <<"x", "y">>),
                       LeftRow(3, <<"a", "b">>, <<"y", "x">>) >>)

Twins ==
    Frame(LeftCols, << LeftRow(1, <<"b">>, <<"y", "x">>),
                       LeftRow(2, <<"b">>, <<"y", "x">>) >>)

LeftTables == {Population, Twins, Frame(LeftCols, <<>>)}

\* the first key of the right table, less one
RightKeyBase == 100

\* every right table of at most MaxRows rows, with keys 101, 102, ...
RightTables ==
    UNION {
        {Frame(RightCols,
               [k \in 1..n |-> RightRow(RightKeyBase + k, f[k][1], f[k][2])]) :
            f \in [1..n -> Firsts \X Lasts]} :
        n \in 0..MaxRows}

NewData ==
    Frame(RightCols, << RightRow(RightKeyBase + 1, <<"a", "b">>, <<"x", "y">>),
                        RightRow(RightKeyBase + 2, <<"b">>, <<"y", "x">>) >>)

\* right tables for whole runs of create_matches: the new data, a table whose
\* two records carry one person's values, a single record, and no record
Namesakes ==
    Frame(RightCols, << RightRow(RightKeyBase + 1, <<"a", "b">>, <<"x", "y">>),
                        RightRow(RightKeyBase + 2, <<"a", "b">>, <<"x", "y">>) >>)

Newcomer ==
    Frame(RightCols, << RightRow(RightKeyBase + 1, <<"b">>, <<"x", "y">>) >>)

NewTables == <<NewData, Namesakes, Newcomer, Frame(RightCols, <<>>)>>

\* one table linked with itself: both sides are identified by "id"
PeopleCols == <<"id", "first", "last">>

PersonRow(id, first, last) == [id |-> id, first |-> first, last |-> last]

People ==
    Frame(PeopleCols, << PersonRow(1, <<"a", "b">>, <<"x", "y">>),
                         PersonRow(2, <<"b">>, <<"x", "y">>),
                         PersonRow(3, <<"a", "b">>, <<"x", "y">>) >>)

\* Matcher(data, 'id', data, 'id')
SelfMatcher(data) ==
    [left_data |-> data, left_id_field |-> "id",
     right_data |-> data, right_id_field |-> "id",
     suffixes |-> <<"_left", "_right">>]

\* Matcher(left_data, 'id1', right_data, 'id2')
NewMatcher(left_data, right_data) ==
    [left_data |-> left_data, left_id_field |-> "id1",
     right_data |-> right_data, right_id_field |-> "id2",
     suffixes |-> <<"_left", "_right">>]

Lambda(body) == [callable |-> TRUE, has_name |-> TRUE, name |-> "<lambda>", body |-> body]
NotCallable == [callable |-> FALSE, has_name |-> FALSE, name |-> "", body |-> ""]

\* def name(row): ..., a function whose __name__ is name
Def(name, body) == [callable |-> TRUE, has_name |-> TRUE, name |-> name, body |-> body]
\* a callable object without __name__
Nameless(body) == [callable |-> TRUE, has_name |-> FALSE, name |-> "", body |-> body]

IntP(n) == [isint |-> TRUE, val |-> n]
StrP(n) == [isint |-> FALSE, val |-> n]

LevField(name, n) == [field_name |-> name, precision |-> IntP(n)]

\* well-formed criteria; the type ids are the caller's
ExactFirst == [type_id |-> 1, method |-> "exact_match", fields |-> <<"first">>]
ExactBoth == [type_id |-> 2, method |-> "exact_match", fields |-> <<"first", "last">>]
ExactLast == [method |-> "exact_match", fields |-> <<"last">>]
Initials == [type_id |-> 3, method |-> "function", function |-> Lambda("initials")]
NearName == [type_id |-> 2, method |-> "levenshtein",
             fields |-> <<LevField("first", 1), LevField("last", 0)>>]


\* a derived-key rule whose function is named like a data column
NamedFirst == [type_id |-> 3, method |-> "function", function |-> Def("first", "initials")]

\* malformed criteria
NoMethod == [type_id |-> 1, fields |-> <<"first", "last">>]
InvalidMethod == [type_id |-> 1, method |-> "match_exactly", fields |-> <<"first", "last">>]
ExactMissingFields == [type_id |-> 1, method |-> "exact_match"]
MissingFunction == [type_id |-> 1, method |-> "function"]
NoCallable == [type_id |-> 1, method |-> "function", function |-> NotCallable]
LevMissingFields == [type_id |-> 1, method |-> "levenshtein"]
LevMissingFieldName == [type_id |-> 4, method |-> "levenshtein",
                        fields |-> <<LevField("first", 1), [precision |-> IntP(2)]>>]
LevMissingPrecision == [type_id |-> 4, method |-> "levenshtein",
                        fields |-> <<[field_name |-> "first"]>>]
LevInvalidPrecision == [type_id |-> 4, method |-> "levenshtein",
                        fields |-> <<[field_name |-> "first", precision |-> StrP(1)]>>]

\* an edit-distance rule with a negative precision
LevNegativePrecision == [type_id |-> 4, method |-> "levenshtein",
                         fields |-> <<LevField("first", 0 - 1)>>]

\* the criteria the lists are drawn from: five well-formed ones, the nine
\* malformed ones, the negative precision
Catalog ==
    << ExactFirst, ExactBoth, ExactLast, Initials, NearName,
       NoMethod, InvalidMethod, ExactMissingFields, MissingFunction, NoCallable,
       LevMissingFields, LevMissingFieldName, LevMissingPrecision,
       LevInvalidPrecision, LevNegativePrecision >>

\* the positions of the well-formed criteria
WellFormed == 1..5

\* the lists of at most MaxCriteria entries of the catalog, as positions
Picks(S) == UNION {[1..n -> S] : n \in 0..MaxCriteria}

ListOf(picks) == [k \in DOMAIN picks |-> Catalog[picks[k]]]

(* ------------------------------- state --------------------------------- *)

VARIABLES
    self,            \* the Matcher: tables, key field names, suffixes
    join_order,      \* row order of inner joins in the join library in use
    match_criteria,  \* the caller's criteria list
    pc,              \* "idle", "dispatch", "returned" or "raised"
    op,              \* the method called
    arg,             \* the arguments of a direct call
    before,          \* the Matcher and the criteria when the call was made
    next_rule,       \* create_matches: position of the loop
    results,         \* create_matches: the results list
    executed,        \* create_matches: the methods dispatched so far
    error,           \* the exception that left the call, "" if none
    matched,         \* the match set: a matcher's frame, or matched_data
    unique,          \* unique_matches: index labels and frame
    rest,            \* the frame returned by unmatched
    done,            \* the accessors evaluated on the match set
    calls            \* the outcomes of the earlier calls of create_matches

vars == <<self, join_order, match_criteria, pc, op, arg, before, next_rule,
          results, executed, error, matched, unique, rest, done, calls>>

NoUnique == [index |-> <<>>, df |-> NoFrame]

Start(left_data, right_data, order, criteria) ==
    /\ self = NewMatcher(left_data, right_data)
    /\ join_order = order
    /\ match_criteria = criteria
    /\ pc = "idle"
    /\ op = ""
    /\ arg = <<>>
    /\ before = [self |-> self, match_criteria |-> match_criteria]
    /\ next_rule = 0
    /\ results = <<>>
    /\ executed = <<>>
    /\ error = ""
    /\ matched = NoFrame
    /\ unique = NoUnique
    /\ rest = NoFrame
    /\ done = {}
    /\ calls = <<>>

JoinOrders == {"left", "grouped"}

(* ------------------------------ actions -------------------------------- *)

Raise(exc) ==
    /\ pc' = "raised"
    /\ error' = exc

\* matcher.create_matches(match_criteria), up to the loop: the criteria
\* list is validated as a whole
CreateMatches ==
    /\ pc = "idle"
    /\ op' = "create_matches"
    /\ before' = [self |-> self, match_criteria |-> match_criteria]
    /\ IF validate_match_criteria(match_criteria)
       THEN /\ pc' = "dispatch"
            /\ next_rule' = 1
            /\ error' = error
       ELSE /\ Raise("AssertionError")
            /\ next_rule' = next_rule
    /\ UNCHANGED <<self, join_order, match_criteria, arg, results, executed,
                   matched, unique, rest, done, calls>>

\* one iteration of the loop of create_matches
Dispatch ==
    /\ pc = "dispatch"
    /\ next_rule <= Len(match_criteria)
    /\ LET match_type == match_criteria[next_rule]
           out == DispatchRule(self, match_type, join_order)
       IN  /\ executed' = Append(executed, next_rule)
           /\ self' = out.self
           /\ match_criteria' =
                  [match_criteria EXCEPT ![next_rule] = AfterDispatch(match_type, out)]
           /\ IF out.err = ""
              THEN /\ results' = Append(results, out.df)
                   /\ next_rule' = next_rule + 1
                   /\ UNCHANGED <<pc, error>>
              ELSE /\ Raise(out.err)
                   /\ UNCHANGED <<results, next_rule>>
    /\ UNCHANGED <<join_order, op, arg, before, matched, unique, rest, done, calls>>

\* the end of create_matches: MatchResult(match_results, ...)
Combine ==
    /\ pc = "dispatch"
    /\ next_rule > Len(match_criteria)
    /\ LET out == CombineResults(self, results, join_order)
       IN  IF out.err = ""
           THEN /\ matched' = out.df
                /\ pc' = "returned"
                /\ error' = error
           ELSE /\ Raise(out.err)
                /\ matched' = matched
    /\ UNCHANGED <<self, join_order, match_criteria, op, arg, before, next_rule,
                   results, executed, unique, rest, done, calls>>

\* matcher.create_matches(match_criteria) once more, on the same Matcher
\* and with the same list object, as the earlier calls have left them: the
\* outcome of the call before is kept, the list is validated, results = []
CreateMatchesAgain ==
    /\ pc \in {"returned", "raised"}
    /\ op = "create_matches"
    /\ Len(calls) < MaxRepeats
    /\ calls' = Append(calls, [pc |-> pc, error |-> error, matched |-> matched])
    /\ before' = [self |-> self, match_criteria |-> match_criteria]
    /\ results' = <<>>
    /\ executed' = <<>>
    /\ matched' = NoFrame
    /\ IF validate_match_criteria(match_criteria)
       THEN /\ pc' = "dispatch"
            /\ next_rule' = 1
            /\ error' = ""
       ELSE /\ Raise("AssertionError")
            /\ next_rule' = 0
    /\ UNCHANGED <<self, join_order, match_criteria, op, arg, unique, rest, done>>

\* MatchResult.unique_matches
UniqueMatches ==
    /\ pc = "returned"
    /\ op = "create_matches"
    /\ "unique_matches" \notin done
    /\ \E order \in SortedOrders(matched) :
          unique' = remove_duplicate_matches(
                        matched, <<self.left_id_field, self.right_id_field>>, order)
    /\ done' = done \cup {"unique_matches"}
    /\ UNCHANGED <<self, join_order, match_criteria, pc, op, arg, before,
                   next_rule, results, executed, error, matched, rest, calls>>

\* matcher.unmatched(match_results) on the match set
Unmatched ==
    /\ pc = "returned"
    /\ op # "given"
    /\ "unmatched" \notin done
    /\ LET out == unmatched(self, matched, join_order)
       IN  /\ rest' = out.df
           /\ error' = out.err
    /\ done' = done \cup {"unmatched"}
    /\ UNCHANGED <<self, join_order, match_criteria, pc, op, arg, before,
                   next_rule, results, executed, matched, unique, calls>>

\* a direct call of a matcher: its outcome becomes the state
Called(name, argument, out) ==
    /\ pc = "idle"
    /\ op' = name
    /\ arg' = argument
    /\ before' = [self |-> self, match_criteria |-> match_criteria]
    /\ self' = out.self
    /\ matched' = out.df
    /\ error' = out.err
    /\ pc' = IF out.err = "" THEN "returned" ELSE "raised"
    /\ UNCHANGED <<join_order, match_criteria, next_rule, results, executed,
                   unique, rest, done, calls>>

TypeIds == {NaN, 1}

FieldLists == {<<"first">>, <<"last">>, <<"first", "last">>}

\* matcher.match_on_field(field_list, type_id)
MatchOnField ==
    \E field_list \in FieldLists, type_id \in TypeIds :
        Called("match_on_field", [fields |-> field_list, type_id |-> type_id],
               match_on_field(self, field_list, type_id, join_order))

Callables == {Lambda(b) : b \in {"initials", "second_char", "left_key", "right_key"}}

\* matcher.match_on_function(func, type_id)
MatchOnFunction ==
    \E func \in Callables, type_id \in TypeIds :
        Called("match_on_function", [function |-> func, type_id |-> type_id],
               match_on_function(self, func, type_id, join_order))

Precisions == 0..MaxPrecision

\* the field lists of the direct calls of levenshtein: one field, or both
\* fields in either order, every precision
LevFieldLists ==
    {<<LevField(f, p)>> : f \in {"first", "last"}, p \in Precisions}
    \cup {<<LevField("first", p), LevField("last", q)>> : p, q \in Precisions}
    \cup {<<LevField("last", q), LevField("first", p)>> : p, q \in Precisions}

\* matcher.levenshtein(fields, type_id)
Levenshtein ==
    \E fields \in LevFieldLists, type_id \in TypeIds :
        Called("levenshtein", [fields |-> fields, type_id |-> type_id],
               levenshtein(self, fields, type_id, join_order))

\* remove_duplicate_matches(data, ['id1', 'id2']) on a match set given by
\* the caller
RemoveDuplicateMatches ==
    /\ pc = "returned"
    /\ op = "given"
    /\ "unique_matches" \notin done
    /\ \E order \in SortedOrders(matched) :
          unique' = remove_duplicate_matches(matched, <<"id1", "id2">>, order)
    /\ done' = done \cup {"unique_matches"}
    /\ UNCHANGED <<self, join_order, match_criteria, pc, op, arg, before,
                   next_rule, results, executed, error, matched, rest, calls>>

\* callables by name: a lambda, an object without a name, functions named
\* like no column, like a data column and like the left key field
NamedCallables ==
    {Lambda("initials"), Nameless("initials"), Def("initials", "initials"),
     Def("first", "initials"), Def("id1", "initials")}

\* matcher.match_on_function(func, type_id) for the callables by name
MatchOnNamedFunction ==
    \E func \in NamedCallables, type_id \in TypeIds :
        Called("match_on_function", [function |-> func, type_id |-> type_id],
               match_on_function(self, func, type_id, join_order))

\* crossjoin_dataframes(df1, df2, suffixes=suffixes) on the frames in arg
CrossjoinDataframes ==
    /\ pc = "idle"
    /\ op = ""
    /\ LET out == CrossjoinCall(arg.df1, arg.df2, arg.suffixes, join_order)
       IN  /\ matched' = out.product
           /\ arg' = [arg EXCEPT !.df1 = out.df1, !.df2 = out.df2]
    /\ op' = "crossjoin_dataframes"
    /\ before' = [self |-> self, match_criteria |-> match_criteria, arg |-> arg]
    /\ pc' = "returned"
    /\ UNCHANGED <<self, join_order, match_criteria, next_rule, results, executed,
                   error, unique, rest, done, calls>>

(* --------------------------- specifications ---------------------------- *)

\* create_matches on well-formed criteria lists, then the accessors
InitCreate ==
    \E t \in DOMAIN NewTables, order \in JoinOrders, picks \in Picks(WellFormed) :
        Start(Population, NewTables[t], order, ListOf(picks))

NextCreate == CreateMatches \/ Dispatch \/ Combine \/ UniqueMatches \/ Unmatched

SpecCreate == InitCreate /\ [][NextCreate]_vars

Spec == SpecCreate

\* create_matches on every criteria list, malformed criteria included
InitValidate ==
    \E order \in JoinOrders, picks \in Picks(DOMAIN Catalog) :
        Start(Population, NewData, order, ListOf(picks))

SpecValidate == InitValidate /\ [][NextCreate]_vars

\* the matchers called directly, then unmatched
InitMatchers ==
    \E left_data \in LeftTables, right_data \in RightTables, order \in JoinOrders :
        Start(left_data, right_data, order, <<>>)

NextMatchers == MatchOnField \/ MatchOnFunction \/ Levenshtein \/ Unmatched

SpecMatchers == InitMatchers /\ [][NextMatchers]_vars

\* the rows of the match sets handed to remove_duplicate_matches
MatchRows ==
    {[id1 |-> a, id2 |-> RightKeyBase + b, match_type |-> t] :
        a \in {1}, b \in 1..2, t \in {1, 2, NaN}}

MatchSets ==
    UNION {{Frame(<<"id1", "id2", "match_type">>, rows) : rows \in [1..n -> MatchRows]} :
           n \in 0..MaxData}

InitDedup ==
    \E data \in MatchSets :
        /\ Start(Population, NewData, "left", <<>>)!1
        /\ join_order = "left"
        /\ match_criteria = <<>>
        /\ pc = "returned"
        /\ op = "given"
        /\ arg = <<>>
        /\ before = [self |-> self, match_criteria |-> match_criteria]
        /\ next_rule = 0
        /\ results = <<>>
        /\ executed = <<>>
        /\ error = ""
        /\ matched = data
        /\ unique = NoUnique
        /\ rest = NoFrame
        /\ done = {}
        /\ calls = <<>>

NextDedup == RemoveDuplicateMatches

SpecDedup == InitDedup /\ [][NextDedup]_vars

\* the state before the first call on a Matcher
Idle(matcher, order, criteria) ==
    /\ self = matcher
    /\ join_order = order
    /\ match_criteria = criteria
    /\ pc = "idle"
    /\ op = ""
    /\ arg = <<>>
    /\ before = [self |-> self, match_criteria |-> match_criteria]
    /\ next_rule = 0
    /\ results = <<>>
    /\ executed = <<>>
    /\ error = ""
    /\ matched = NoFrame
    /\ unique = NoUnique
    /\ rest = NoFrame
    /\ done = {}
    /\ calls = <<>>

\* the Matchers of the linkage runs: two tables with keys of different
\* names and colliding data columns, and one table linked with itself
Linkages ==
    [t \in DOMAIN NewTables |-> NewMatcher(Population, NewTables[t])]
    \o << SelfMatcher(People), SelfMatcher(Frame(PeopleCols, <<>>)) >>

\* the criteria lists of the linkage runs: no rule, or one well-formed rule
Singles == {<<>>} \cup {<<k>> : k \in WellFormed}

\* every matcher called directly, and create_matches, on tables whose
\* column names collide
InitLinkage ==
    \E m \in DOMAIN Linkages, order \in JoinOrders, picks \in Singles :
        Idle(Linkages[m], order, ListOf(picks))

NextLinkage ==
    MatchOnField \/ MatchOnFunction \/ Levenshtein \/ CreateMatches \/ Dispatch \/ Combine

SpecLinkage == InitLinkage /\ [][NextLinkage]_vars

\* the pairs of frames handed to crossjoin_dataframes: a left and a right
\* table, or one table twice
FramePairs ==
    {<<l, r>> : l \in LeftTables, r \in RightTables}
    \cup {<<l, l>> : l \in LeftTables}

SuffixChoices == {DefaultSuffixes, <<"_left", "_right">>}

InitCross ==
    \E p \in FramePairs, suffixes \in SuffixChoices, order \in JoinOrders :
        /\ self = NewMatcher(Population, NewData)
        /\ join_order = order
        /\ match_criteria = <<>>
        /\ pc = "idle"
        /\ op = ""
        /\ arg = [df1 |-> p[1], df2 |-> p[2], suffixes |-> suffixes]
        /\ before = [self |-> self, match_criteria |-> match_criteria, arg |-> arg]
        /\ next_rule = 0
        /\ results = <<>>
        /\ executed = <<>>
        /\ error = ""
        /\ matched = NoFrame
        /\ unique = NoUnique
        /\ rest = NoFrame
        /\ done = {}
        /\ calls = <<>>

NextCross == CrossjoinDataframes

SpecCross == InitCross /\ [][NextCross]_vars

\* match_on_function for callables of every kind of name
NextScratch == MatchOnNamedFunction

SpecScratch == InitMatchers /\ [][NextScratch]_vars

\* the rules of the repeated calls: one for each matcher, and a derived-key
\* rule whose function is named like a data column
RepeatRules == <<ExactFirst, Initials, NearName, NamedFirst>>

\* create_matches called again and again with one criteria list
InitRepeat ==
    \E t \in DOMAIN NewTables, order \in JoinOrders, n \in 0..MaxCriteria :
        \E f \in [1..n -> DOMAIN RepeatRules] :
            Idle(NewMatcher(Population, NewTables[t]), order,
                 [k \in 1..n |-> RepeatRules[f[k]]])

NextRepeat == CreateMatches \/ Dispatch \/ Combine \/ CreateMatchesAgain

SpecRepeat == InitRepeat /\ [][NextRepeat]_vars

(* ------------------------------- claims -------------------------------- *)

Deduplicated == "unique_matches" \in done

SamePair(r1, r2) ==
    /\ r1[self.left_id_field] = r2[self.left_id_field]
    /\ r1[self.right_id_field] = r2[self.right_id_field]

\* C1: the result of remove_duplicate_matches holds exactly one row for
\* every (left key, right key) pair of the input, every row of it is a row
\* of the input, and the row retained for a pair has the least match_type of
\* the pair's rows; a missing match_type ranks after every number, as the
\* sort places it.
C1_OneRowPerPairWithLeastType ==
    Deduplicated =>
        /\ \A i \in DOMAIN matched.rows :
              Cardinality({k \in DOMAIN unique.df.rows :
                              SamePair(unique.df.rows[k], matched.rows[i])}) = 1
        /\ \A k \in DOMAIN unique.df.rows :
              \E i \in DOMAIN matched.rows : matched.rows[i] = unique.df.rows[k]
        /\ \A k \in DOMAIN unique.df.rows, i \in DOMAIN matched.rows :
              SamePair(unique.df.rows[k], matched.rows[i])
              /\ matched.rows[i]["match_type"] # NaN
              => /\ unique.df.rows[k]["match_type"] # NaN
                 /\ unique.df.rows[k]["match_type"] <= matched.rows[i]["match_type"]

\* a match set with a pair matched under two types and a second pair whose
\* only row has no type has been deduplicated
C1_Witness ==
    /\ Deduplicated
    /\ op = "given"
    /\ NRows(unique.df) = 2
    /\ NRows(matched) = 3
    /\ \E i, j \in DOMAIN matched.rows :
          /\ SamePair(matched.rows[i], matched.rows[j])
          /\ matched.rows[i]["match_type"] = 2
          /\ matched.rows[j]["match_type"] = 1
          /\ i < j
    /\ \E i \in DOMAIN matched.rows : matched.rows[i]["match_type"] = NaN

\* the index labels of the rows of the input that share the pair and the
\* match_type of row x
TiedWith(x) ==
    {i \in DOMAIN matched.rows :
        /\ SamePair(matched.rows[i], matched.rows[x])
        /\ matched.rows[i]["match_type"] = matched.rows[x]["match_type"]}

\* C10 as stated: of the rows of one pair with an identical match_type, the
\* one retained is the first of the input.
C10_FirstOfTiesKept ==
    Deduplicated =>
        \A k \in DOMAIN unique.index :
            \A i \in TiedWith(unique.index[k]) : unique.index[k] <= i

\* C10 as amended: when the rows of one pair all lack a match_type, the one
\* retained is the first of the input, and the rows retained without a
\* match_type stay in input order; rows with an equal match_type that is
\* not missing are sorted by an unstable sort, and which of them is retained
\* is not fixed.
C10_FirstOfNullTiesKept ==
    Deduplicated =>
        /\ \A k \in DOMAIN unique.index :
              matched.rows[unique.index[k]]["match_type"] = NaN =>
                  \A i \in TiedWith(unique.index[k]) : unique.index[k] <= i
        /\ \A k, m \in DOMAIN unique.index :
              /\ k < m
              /\ matched.rows[unique.index[k]]["match_type"] = NaN
              /\ matched.rows[unique.index[m]]["match_type"] = NaN
              => unique.index[k] < unique.index[m]

\* a pair with two rows without a match_type and a pair with a match_type
\* have been deduplicated
C10_Witness ==
    /\ Deduplicated
    /\ op = "given"
    /\ \E k \in DOMAIN unique.index :
          /\ matched.rows[unique.index[k]]["match_type"] = NaN
          /\ Cardinality(TiedWith(unique.index[k])) >= 2
    /\ \E k \in DOMAIN unique.index :
          matched.rows[unique.index[k]]["match_type"] # NaN

\* the defects of a criterion: no method, an unrecognized method, a missing
\* payload, a function that cannot be called, an edit-distance field without
\* field_name or with a precision that is no integer
Defective(c) ==
    \/ "method" \notin DOMAIN c
    \/ /\ "method" \in DOMAIN c
       /\ \/ c["method"] \notin {"exact_match", "function", "levenshtein"}
          \/ c["method"] \in {"exact_match", "levenshtein"} /\ "fields" \notin DOMAIN c
          \/ c["method"] = "function" /\ "function" \notin DOMAIN c
          \/ c["method"] = "function" /\ "function" \in DOMAIN c
               /\ ~c["function"].callable
          \/ /\ c["method"] = "levenshtein"
             /\ "fields" \in DOMAIN c
             /\ \E k \in DOMAIN c["fields"] :
                   \/ "field_name" \notin DOMAIN c["fields"][k]
                   \/ /\ "precision" \in DOMAIN c["fields"][k]
                      /\ ~c["fields"][k]["precision"].isint

\* the call failed in validation: nothing was dispatched and nothing changed
FailedInValidation ==
    /\ pc = "raised"
    /\ error = "AssertionError"
    /\ executed = <<>>
    /\ results = <<>>
    /\ self = before.self
    /\ match_criteria = before.match_criteria

\* C2: when any criterion of the list handed to create_matches is
\* defective, at whatever position, the call fails with the validation
\* error, no matcher has run for any rule, and the tables are as before.
C2_DefectiveListFailsBeforeDispatch ==
    /\ op = "create_matches"
    /\ \E k \in DOMAIN before.match_criteria : Defective(before.match_criteria[k])
    => FailedInValidation

\* a list whose first criterion is well-formed and whose last is defective
\* has been rejected
C2_Witness ==
    /\ op = "create_matches"
    /\ Len(before.match_criteria) = 2
    /\ ~Defective(before.match_criteria[1])
    /\ Defective(before.match_criteria[2])
    /\ FailedInValidation

NegativePrecision(c) ==
    /\ "method" \in DOMAIN c
    /\ c["method"] = "levenshtein"
    /\ "fields" \in DOMAIN c
    /\ \E k \in DOMAIN c["fields"] :
          /\ "precision" \in DOMAIN c["fields"][k]
          /\ c["fields"][k]["precision"].isint
          /\ c["fields"][k]["precision"].val < 0

\* C9: a criteria list with an edit-distance rule of negative precision is
\* rejected by validation, before any matcher runs.
C9_NegativePrecisionRejected ==
    /\ op = "create_matches"
    /\ \E k \in DOMAIN before.match_criteria :
          NegativePrecision(before.match_criteria[k])
    => FailedInValidation

\* how many rows of df link the left record lr to the right record rr
PairCount(df, lr, rr) ==
    Cardinality({k \in DOMAIN df.rows :
                    /\ df.rows[k][self.left_id_field] = lr[self.left_id_field]
                    /\ df.rows[k][self.right_id_field] = rr[self.right_id_field]})

\* every row of df links a left record to a right record
LinksRecords(df) ==
    \A k \in DOMAIN df.rows :
        \E a \in DOMAIN self.left_data.rows, b \in DOMAIN self.right_data.rows :
            /\ df.rows[k][self.left_id_field] = self.left_data.rows[a][self.left_id_field]
            /\ df.rows[k][self.right_id_field] = self.right_data.rows[b][self.right_id_field]

PairsOfRecords ==
    {<<self.left_data.rows[a], self.right_data.rows[b]>> :
        a \in DOMAIN self.left_data.rows, b \in DOMAIN self.right_data.rows}

\* the pair is within the precision of every field of the list
WithinAll(fields, lr, rr) ==
    \A k \in DOMAIN fields :
        LevDist(lr[fields[k]["field_name"]], rr[fields[k]["field_name"]])
            <= fields[k]["precision"].val

\* the rows a call holds: those of the frame returned, none when it raised
RowsOfCall == IF pc = "returned" THEN matched ELSE NoFrame

\* C3: levenshtein yields a row for a pair of records exactly when every
\* field of the list is within its precision for the pair, and such a pair
\* has one row; the pruning by length loses no such pair.  (The call raises
\* when the pruning leaves no row; then no pair is within the precisions.)
C3_RowIffEveryFieldWithinPrecision ==
    op = "levenshtein" =>
        /\ \A p \in PairsOfRecords :
              PairCount(RowsOfCall, p[1], p[2])
                  = IF WithinAll(arg.fields, p[1], p[2]) THEN 1 ELSE 0
        /\ LinksRecords(RowsOfCall)

LengthsWithin(fields, lr, rr) ==
    \A k \in DOMAIN fields :
        Abs(Len(lr[fields[k]["field_name"]]) - Len(rr[fields[k]["field_name"]]))
            <= fields[k]["precision"].val

\* a call on two fields returned with a pair within both precisions at the
\* very limit of one, a pair cut by the pruning, and a pair that passed the
\* pruning and failed on distance
C3_Witness ==
    /\ op = "levenshtein"
    /\ pc = "returned"
    /\ Len(arg.fields) = 2
    /\ \E p \in PairsOfRecords :
          /\ WithinAll(arg.fields, p[1], p[2])
          /\ \E k \in DOMAIN arg.fields :
                Abs(Len(p[1][arg.fields[k]["field_name"]])
                    - Len(p[2][arg.fields[k]["field_name"]]))
                    = arg.fields[k]["precision"].val
    /\ \E p \in PairsOfRecords : ~LengthsWithin(arg.fields, p[1], p[2])
    /\ \E p \in PairsOfRecords :
          LengthsWithin(arg.fields, p[1], p[2]) /\ ~WithinAll(arg.fields, p[1], p[2])

\* C7: match_on_field returns a row for a pair of records exactly when the
\* two are equal in every field of the list, one row for each such pair,
\* and no row when there is none.
C7_RowIffEqualInEveryField ==
    op = "match_on_field" /\ pc = "returned" =>
        /\ \A p \in PairsOfRecords :
              PairCount(matched, p[1], p[2])
                  = IF \A k \in DOMAIN arg.fields :
                          p[1][arg.fields[k]] = p[2][arg.fields[k]]
                    THEN 1 ELSE 0
        /\ LinksRecords(matched)

\* a call on two fields returned with a left record linked to two right
\* records and a pair equal in the first field only
C7_Witness ==
    /\ op = "match_on_field"
    /\ pc = "returned"
    /\ Len(arg.fields) = 2
    /\ \E p, q \in PairsOfRecords :
          /\ p[1] = q[1] /\ p[2] # q[2]
          /\ PairCount(matched, p[1], p[2]) = 1
          /\ PairCount(matched, q[1], q[2]) = 1
    /\ \E p \in PairsOfRecords :
          /\ p[1][arg.fields[1]] = p[2][arg.fields[1]]
          /\ p[1][arg.fields[2]] # p[2][arg.fields[2]]

\* the right keys of the match set
MatchedRightKeys == {matched.rows[k][self.right_id_field] : k \in DOMAIN matched.rows}

\* C4: unmatched returns, once each and as they are in the right table, the
\* right records whose key is not in the match set, and no other; its
\* columns are those of the right table.
C4_UnmatchedIsTheComplement ==
    "unmatched" \in done /\ error = "" =>
        /\ rest.cols = self.right_data.cols
        /\ \A b \in DOMAIN self.right_data.rows :
              Cardinality({k \in DOMAIN rest.rows :
                              rest.rows[k][self.right_id_field]
                                  = self.right_data.rows[b][self.right_id_field]})
                  = IF self.right_data.rows[b][self.right_id_field] \in MatchedRightKeys
                    THEN 0 ELSE 1
        /\ \A k \in DOMAIN rest.rows :
              \E b \in DOMAIN self.right_data.rows : rest.rows[k] = self.right_data.rows[b]

\* unmatched has returned one of two right records, the other being in the
\* match set twice
C4_Witness ==
    /\ "unmatched" \in done
    /\ error = ""
    /\ NRows(self.right_data) = 2
    /\ NRows(rest) = 1
    /\ NRows(matched) = 2
    /\ Cardinality(MatchedRightKeys) = 1

\* C8: when the function handed to match_on_function raises on a record,
\* both tables afterwards have the columns they had before the call.
C8_ScratchColumnGoneAfterError ==
    op = "match_on_function" /\ pc = "raised" /\ error = "FunctionError" =>
        /\ self.left_data.cols = before.self.left_data.cols
        /\ self.right_data.cols = before.self.right_data.cols

\* the pair of records satisfies the rule
Satisfies(c, lr, rr) ==
    CASE c["method"] = "exact_match" ->
             \A k \in DOMAIN c["fields"] : lr[c["fields"][k]] = rr[c["fields"][k]]
      [] c["method"] = "function" ->
             FuncValue(c["function"], lr) = FuncValue(c["function"], rr)
      [] c["method"] = "levenshtein" -> WithinAll(c["fields"], lr, rr)

\* the rules of the list handed to create_matches
Rules == before.match_criteria

\* the type ids of the rules the pair satisfies
TypesOf(p) ==
    {GetTypeId(Rules[k]) : k \in {j \in DOMAIN Rules : Satisfies(Rules[j], p[1], p[2])}}

\* the least of a non-empty set of type ids, a missing one ranking last
Least(ids) ==
    IF ids = {NaN} THEN NaN
    ELSE CHOOSE t \in ids \ {NaN} : \A u \in ids \ {NaN} : t <= u

\* C5: each pair of records that satisfies a rule of the list is in
\* unique_matches once, with the least type_id of the rules it satisfies,
\* wherever those rules stand in the list; no other pair is there, so the
\* row count is the number of matched pairs.
C5_UniqueCarriesLeastTypeOfSatisfiedRules ==
    op = "create_matches" /\ Deduplicated =>
        /\ \A p \in PairsOfRecords :
              IF TypesOf(p) = {}
              THEN PairCount(unique.df, p[1], p[2]) = 0
              ELSE /\ PairCount(unique.df, p[1], p[2]) = 1
                   /\ \A k \in DOMAIN unique.df.rows :
                         PairCount(Frame(unique.df.cols, <<unique.df.rows[k]>>),
                                   p[1], p[2]) = 1
                         => unique.df.rows[k]["match_type"] = Least(TypesOf(p))
        /\ LinksRecords(unique.df)
        /\ NRows(unique.df) = Cardinality({p \in PairsOfRecords : TypesOf(p) # {}})

\* a pair satisfies both rules of a list in which the rule of the smaller
\* type_id stands last, and unique_matches has been evaluated
C5_Witness ==
    /\ op = "create_matches"
    /\ Deduplicated
    /\ Len(Rules) = 2
    /\ GetTypeId(Rules[1]) # NaN
    /\ GetTypeId(Rules[2]) # NaN
    /\ GetTypeId(Rules[2]) < GetTypeId(Rules[1])
    /\ \E p \in PairsOfRecords : Cardinality(TypesOf(p)) = 2
    /\ NRows(unique.df) < NRows(matched)

\* the positions in the list of the rules with the type id t
RulesTyped(t) == {k \in DOMAIN Rules : GetTypeId(Rules[k]) = t}

\* for every pair and type id, the match set has as many rows as there are
\* rules of that type id which the pair satisfies
OneRowPerRuleAndPair ==
    /\ \A p \in PairsOfRecords : \A t \in {GetTypeId(Rules[k]) : k \in DOMAIN Rules} :
          Cardinality({k \in DOMAIN matched.rows :
                          /\ PairCount(Frame(matched.cols, <<matched.rows[k]>>),
                                       p[1], p[2]) = 1
                          /\ matched.rows[k]["match_type"] = t})
              = Cardinality({k \in RulesTyped(t) : Satisfies(Rules[k], p[1], p[2])})
    /\ LinksRecords(matched)
    /\ \A k \in DOMAIN matched.rows : RulesTyped(matched.rows[k]["match_type"]) # {}

\* no row of a later rule stands before a row of an earlier rule
InRuleOrder ==
    \A i, j \in DOMAIN matched.rows :
        i < j =>
            \E a \in RulesTyped(matched.rows[i]["match_type"]),
               b \in RulesTyped(matched.rows[j]["match_type"]) : a <= b

CreateReturned == op = "create_matches" /\ pc = "returned"

MatcherCalls == {"match_on_field", "match_on_function", "levenshtein", "create_matches"}

\* the names a column of a match record may have: a column of a table, such
\* a column with a configured suffix, or a column the matchers add
ConfiguredNames ==
    LET table == Range(self.left_data.cols) \cup Range(self.right_data.cols)
    IN  table
        \cup {c \o self.suffixes[1] : c \in table}
        \cup {c \o self.suffixes[2] : c \in table}
        \cup {c \o "_levenshtein_distance" : c \in table}
        \cup {"matched_to", "match_type", "length_diff"}

\* C11: no call of a matcher or of create_matches fails on a key column,
\* also when both tables use one key field name, and in the records a call
\* returns the two key fields stand under their own names, holding keys of
\* the two tables, every other column being a column of a table, bare or
\* with one of the configured suffixes, or a column added by the matcher.
C11_KeysKeepTheirNames ==
    op \in MatcherCalls =>
        /\ error # "KeyError"
        /\ pc = "returned" =>
              /\ HasCol(matched, self.left_id_field)
              /\ HasCol(matched, self.right_id_field)
              /\ LinksRecords(matched)
              /\ Range(matched.cols) \subseteq ConfiguredNames

\* the name of column c of one frame in the product with the other frame
ProductName(c, other, suffix) == IF HasCol(other, c) THEN c \o suffix ELSE c

\* row is the combination of the records lr of df1 and rr of df2
Combines(row, lr, rr, df1, df2, suffixes) ==
    /\ \A c \in Range(df1.cols) : row[ProductName(c, df2, suffixes[1])] = lr[c]
    /\ \A c \in Range(df2.cols) : row[ProductName(c, df1, suffixes[2])] = rr[c]

\* C12: crossjoin_dataframes of frames of m and n rows returns m*n rows, as
\* many for every combination of a row of the first and a row of the second
\* frame as the combination occurs, without the helper column, over the
\* columns of the two frames, and the two frames are afterwards as they
\* were handed in.
C12_CrossjoinIsTheFullProduct ==
    op = "crossjoin_dataframes" =>
        LET df1 == before.arg.df1
            df2 == before.arg.df2
            suffixes == before.arg.suffixes
        IN  /\ NRows(matched) = NRows(df1) * NRows(df2)
            /\ ~HasCol(matched, "__tmp")
            /\ Range(matched.cols) =
                   {ProductName(c, df2, suffixes[1]) : c \in Range(df1.cols)}
                   \cup {ProductName(c, df1, suffixes[2]) : c \in Range(df2.cols)}
            /\ \A i \in DOMAIN df1.rows, j \in DOMAIN df2.rows :
                  Cardinality({k \in DOMAIN matched.rows :
                                  Combines(matched.rows[k], df1.rows[i], df2.rows[j],
                                           df1, df2, suffixes)})
                      = Cardinality({q \in (DOMAIN df1.rows) \X (DOMAIN df2.rows) :
                                        /\ df1.rows[q[1]] = df1.rows[i]
                                        /\ df2.rows[q[2]] = df2.rows[j]})
            /\ arg.df1 = df1
            /\ arg.df2 = df2

\* the product of a frame of three rows and a frame of two rows with
\* colliding column names has been returned
C12_Witness ==
    /\ op = "crossjoin_dataframes"
    /\ pc = "returned"
    /\ NRows(before.arg.df1) = 3
    /\ NRows(before.arg.df2) = 2
    /\ HasCol(before.arg.df2, "first")
    /\ NRows(matched) = 6

\* the frame has the columns and the values of the other
SameFrame(df, other) ==
    /\ df.cols = other.cols
    /\ df.rows = other.rows

\* C13: after a call of match_on_function that returned, both tables have
\* the columns and the values they had before the call, whatever the name
\* of the callable.
C13_TablesAsBeforeAfterSuccess ==
    op = "match_on_function" /\ pc = "returned" =>
        /\ SameFrame(self.left_data, before.self.left_data)
        /\ SameFrame(self.right_data, before.self.right_data)

\* a call of create_matches on this Matcher has ended
CallEnded == op = "create_matches" /\ pc \in {"returned", "raised"}

\* C14: every call of create_matches on one Matcher with one criteria
\* list ends as the call before it ended: it returns the same match set, or
\* fails with the same error.
C14_RepeatedCallSameMatchSet ==
    CallEnded /\ calls # <<>> =>
        LET last == calls[Len(calls)]
        IN  /\ pc = last.pc
            /\ error = last.error
            /\ SameFrame(matched, last.matched)

====
